---------------------------- MODULE Spec2Model ----------------------------
(***************************************************************************)
(* The work loop of the reconciler                                         *)
(* (packages/react-reconciler/src/work_loop.rs): scheduling an update on a *)
(* fiber, the pass over the work-in-progress tree (begin_work /            *)
(* complete_work driven by work_in_progress and _return links) and         *)
(* commit_root.                                                            *)
(*                                                                         *)
(* begin_work, complete_work, create_work_in_progress,                     *)
(* commit_mutation_effects and the flag constants live in other files of   *)
(* the crate; they are modelled from their contracts in spec.md.           *)
(***************************************************************************)
EXTENDS Integers, Sequences, FiniteSets, TLC

\* ------------------------------------------------------------------ bounds
\* Largest number of fibers in the tree owned by the root container.
MaxNodes == 3
\* Largest number of passes (resolved schedule_update_on_fiber calls).
MaxPasses == 2
\* Largest number of redirections complete_work returns in one pass.
MaxRedirects == 1
\* Largest number of calls of schedule_update_on_fiber nested in a pass.
MaxDepth == 1

\* ------------------------------------------------------------- fiber ids
\* Option::None of every Option<Rc<RefCell<FiberNode>>>.
None == 0

\* A fiber of the tree is a position p of the tree in buffer b (0 or 1);
\* the two buffers hold the twins of the double buffering.
Id(p, b) == 2 * (p - 1) + b + 1
Pos(f) == (f + 1) \div 2
Buf(f) == (f + 1) % 2
TreeIds == 1 .. (2 * MaxNodes)

\* Fibers that are not below a root container.
Detached1 == 2 * MaxNodes + 1   \* unmounted element, no parent
Detached2 == 2 * MaxNodes + 2   \* child of Detached1
Detached3 == 2 * MaxNodes + 3   \* HostRoot tag, state_node is an element
Detached4 == 2 * MaxNodes + 4   \* child of Detached3
Detached5 == 2 * MaxNodes + 5   \* HostComponent tag, state_node is a root
Detached6 == 2 * MaxNodes + 6   \* HostRoot tag, no state_node
DetachedIds == {Detached1, Detached2, Detached3, Detached4, Detached5, Detached6}
FiberIds == TreeIds \cup DetachedIds

\* ------------------------------------------------------------------ flags
\* get_mutation_mask(): the flags that need a host operation.
MutationMask == {"Placement", "Update", "ChildDeletion"}
\* The flag sets begin_work may leave on a node ("Passive" stands for a
\* flag outside the mutation mask).
FlagChoices == {{}, {"Update"}, {"Passive"}}
NoFlags == {}

\* Flags::contains of the bitflags type: every bit of other is set in self.
Contains(self, other) == other \subseteq self

\* ------------------------------------------------------------ tree shapes
\* A shape is the parent of every position; position 1 is the root and the
\* children of a position are ordered by their number.
Shapes ==
    UNION { { s \in [1 .. n -> 0 .. n] :
                /\ s[1] = 0
                /\ \A i \in 2 .. n : s[i] \in 1 .. (i - 1) } : n \in 1 .. MaxNodes }

Min(S) == CHOOSE x \in S : \A y \in S : x <= y
FirstChildPos(s, p) ==
    LET K == {c \in DOMAIN s : s[c] = p} IN IF K = {} THEN 0 ELSE Min(K)
NextSiblingPos(s, c) ==
    LET K == {d \in DOMAIN s : d > c /\ s[d] = s[c]} IN IF K = {} THEN 0 ELSE Min(K)

VARIABLES
    work_in_progress,  \* WorkLoop.work_in_progress
    fiber,             \* the FiberNode of every fiber id
    root,              \* the FiberRootNode: current, finished_work
    shape,             \* the shape of the tree the render produces
    pc,                \* where the running call is
    node,              \* complete_unit_of_work's local node
    finished,          \* commit_root's local finished_work
    arg,               \* schedule_update_on_fiber's parameter fiber
    lastCall,          \* the last function called from outside
    passes,            \* number of passes started
    walks,             \* commit_mutation_effects invocations since the pass began
    hostOps,           \* host operations issued since the pass began
    swaps,             \* writes to root.current since the pass began
    beginLog,          \* fibers given to begin_work in this pass, in order
    completeLog,       \* fibers given to complete_work in this pass, in order
    preCurrent,        \* root.current when the pass started
    redirections,      \* the redirections complete_work returned in this pass
    stack              \* the fibers whose begin_work is waiting for a nested call

vars == <<work_in_progress, fiber, root, shape, pc, node, finished, arg, lastCall,
          passes, walks, hostOps, swaps, beginLog, completeLog, preCurrent,
          redirections, stack>>


\* ------------------------------------------------------------ fiber nodes
\* StateNode of a fiber: none, a host element, or the root container.
NoState == [kind |-> "None"]
Element == [kind |-> "Element"]
FiberRootNode == [kind |-> "FiberRootNode"]

\* A slot of the arena that holds no fiber yet.
Free ==
    [tag |-> "Free", state_node |-> NoState, _return |-> None, child |-> None,
     sibling |-> None, alternate |-> None, flags |-> NoFlags,
     subtree_flags |-> NoFlags]

NewFiber(tag, state_node, ret) ==
    [tag |-> tag, state_node |-> state_node, _return |-> ret, child |-> None,
     sibling |-> None, alternate |-> None, flags |-> NoFlags,
     subtree_flags |-> NoFlags]

TagOf(p) == IF p = 1 THEN "HostRoot" ELSE "HostComponent"
StateNodeOf(p) == IF p = 1 THEN FiberRootNode ELSE Element

\* The fibers outside every root container; no operation changes them.
DetachedFiber(f) ==
    CASE f = Detached1 -> NewFiber("HostComponent", NoState, None)
      [] f = Detached2 -> NewFiber("HostComponent", Element, Detached1)
      [] f = Detached3 -> NewFiber("HostRoot", Element, None)
      [] f = Detached4 -> NewFiber("HostComponent", Element, Detached3)
      [] f = Detached5 -> NewFiber("HostComponent", FiberRootNode, None)
      [] f = Detached6 -> NewFiber("HostRoot", NoState, None)

\* The mounted tree of shape s, in buffer 0, before the first pass.
InitialFiber(s, f) ==
    IF f \in DetachedIds THEN DetachedFiber(f)
    ELSE IF Buf(f) = 0 /\ Pos(f) \in DOMAIN s
    THEN [NewFiber(TagOf(Pos(f)), StateNodeOf(Pos(f)),
                   IF s[Pos(f)] = 0 THEN None ELSE Id(s[Pos(f)], 0))
            EXCEPT !.child =
                     IF FirstChildPos(s, Pos(f)) = 0 THEN None
                     ELSE Id(FirstChildPos(s, Pos(f)), 0),
                   !.sibling =
                     IF NextSiblingPos(s, Pos(f)) = 0 THEN None
                     ELSE Id(NextSiblingPos(s, Pos(f)), 0)]
    ELSE Free

\* --------------------------------------------------- create_work_in_progress
\* The twin create_work_in_progress returns for current: its alternate when
\* one is allocated, else the fresh slot of the other buffer.
WipOf(fib, current) ==
    IF fib[current].alternate # None THEN fib[current].alternate
    ELSE Id(Pos(current), 1 - Buf(current))

\* FiberNode::create_work_in_progress: reset the alternate, or allocate the
\* twin, copying tag and state_node and pairing the alternates both ways.
CreateWorkInProgress(fib, current) ==
    LET w == WipOf(fib, current) IN
    [fib EXCEPT
       ![w] = [tag |-> fib[current].tag,
               state_node |-> fib[current].state_node,
               _return |-> IF fib[w].tag = "Free" THEN None ELSE fib[w]._return,
               child |-> None,
               sibling |-> IF fib[w].tag = "Free" THEN None ELSE fib[w].sibling,
               alternate |-> current,
               flags |-> NoFlags,
               subtree_flags |-> NoFlags],
       ![current].alternate = w]

\* ------------------------------------------------------------- begin_work
\* The twins of the children of position p, in buffer b: reconciliation
\* (re)creates each with cleared flags and links it below the twin w.
ChildTwin(fib, s, w, c) ==
    LET b == Buf(w)
        cur == Id(c, 1 - b)
    IN [tag |-> TagOf(c),
        state_node |-> StateNodeOf(c),
        _return |-> w,
        child |-> None,
        sibling |-> IF NextSiblingPos(s, c) = 0 THEN None
                    ELSE Id(NextSiblingPos(s, c), b),
        alternate |-> IF fib[cur].tag = "Free" THEN None ELSE cur,
        flags |-> NoFlags,
        subtree_flags |-> NoFlags]

\* begin_work(w): sets the flags fs on w, reconciles the children of w and
\* links the first of them as w.child (none for a leaf); the value
\* begin_work returns is w.child of the result.
BeginWork(fib, s, w, fs) ==
    LET p == Pos(w)
        b == Buf(w)
        kids == {c \in DOMAIN s : s[c] = p}
    IN [f \in DOMAIN fib |->
          IF f = w
          THEN [fib[w] EXCEPT !.flags = fs,
                              !.child = IF kids = {} THEN None
                                        ELSE Id(FirstChildPos(s, p), b)]
          ELSE IF f \in TreeIds /\ Buf(f) = b /\ Pos(f) \in kids
          THEN ChildTwin(fib, s, w, Pos(f))
          ELSE IF f \in TreeIds /\ Buf(f) = 1 - b /\ Pos(f) \in kids
                  /\ fib[f].tag # "Free"
          THEN [fib[f] EXCEPT !.alternate = Id(Pos(f), b)]
          ELSE fib[f]]

\* ---------------------------------------------------------- complete_work
RECURSIVE ChainSubtreeFlags(_, _)
\* OR of subtree_flags over n and the siblings after it.
ChainSubtreeFlags(fib, n) ==
    IF n = None THEN NoFlags
    ELSE fib[n].subtree_flags \cup ChainSubtreeFlags(fib, fib[n].sibling)

\* CompleteWork::complete_work(n): subtree_flags := flags | OR of the
\* children's subtree_flags.
CompleteWork(fib, n) ==
    [fib EXCEPT ![n].subtree_flags =
        fib[n].flags \cup ChainSubtreeFlags(fib, fib[n].child)]

\* The redirection target complete_work returns: ordinarily none.
CompleteWorkNext(fib, n) == None

\* ------------------------------------------ mark_update_lane_from_fiber_to_root
RECURSIVE TopAncestor(_, _)
\* The while loop of lines 49-61: follow _return until there is none.
TopAncestor(fib, f) ==
    IF fib[f]._return = None THEN f ELSE TopAncestor(fib, fib[f]._return)

\* mark_update_lane_from_fiber_to_root without the test of state_node: every
\* HostRoot-tagged topmost ancestor is taken to hold the root container.
MarkUpdateLaneFromFiberToRoot_TagOnly(fib, f) ==
    LET top == TopAncestor(fib, f) IN
    IF fib[top].tag = "HostRoot" THEN FiberRootNode ELSE NoState

\* mark_update_lane_from_fiber_to_root without the upward walk: the fiber
\* itself is tested.
MarkUpdateLaneFromFiberToRoot_NoWalk(fib, f) ==
    IF fib[f].tag = "HostRoot" /\ fib[f].state_node.kind = "FiberRootNode"
    THEN fib[f].state_node
    ELSE NoState

\* The root container of the topmost ancestor when that is a HostRoot
\* holding a FiberRootNode, else NoState (Option::None).
MarkUpdateLaneFromFiberToRoot(fib, f) ==
    LET top == TopAncestor(fib, f) IN
    IF fib[top].tag = "HostRoot" /\ fib[top].state_node.kind = "FiberRootNode"
    THEN fib[top].state_node
    ELSE NoState


\* ------------------------------------------------------------------- Init
\* WorkLoop::new: no work in progress.  The root container holds a mounted
\* tree of some shape; nothing has been scheduled yet.
Init ==
    /\ shape \in Shapes
    /\ fiber = [f \in FiberIds |-> InitialFiber(shape, f)]
    /\ root = [current |-> Id(1, 0), finished_work |-> None]
    /\ work_in_progress = None
    /\ pc = "idle"
    /\ node = None
    /\ finished = None
    /\ arg = None
    /\ lastCall = "none"
    /\ passes = 0
    /\ walks = 0
    /\ hostOps = 0
    /\ swaps = 0
    /\ beginLog = <<>>
    /\ completeLog = <<>>
    /\ preCurrent = None
    /\ redirections = <<>>
    /\ stack = <<>>

\* Longest log kept of one pass.
LogCap == (MaxRedirects + 1) * MaxNodes + 2
Log(log, f) == IF Len(log) < LogCap THEN Append(log, f) ELSE log

\* ----------------------------------------------- schedule_update_on_fiber
\* prepare_fresh_stack: work_in_progress := the twin of root.current.
PrepareFreshStack(fib, r) == WipOf(fib, r.current)

\* Where control is after a call returns: to the caller outside, or into
\* the begin_work that raised the call.
ReturnPc == IF stack = <<>> THEN "idle" ELSE "begin_work"

\* schedule_update_on_fiber(f) is called.
ScheduleUpdateOnFiber(f) ==
    /\ pc = "idle"
    /\ passes < MaxPasses
    /\ fiber[f].tag # "Free"
    /\ arg' = f
    /\ lastCall' = "schedule_update_on_fiber"
    /\ pc' = "schedule_update_on_fiber"
    /\ UNCHANGED <<work_in_progress, fiber, root, shape, node, finished, passes,
                   walks, hostOps, swaps, beginLog, completeLog, preCurrent,
                   redirections, stack>>

\* The body of schedule_update_on_fiber up to the first test of the work
\* loop: resolve the root; return when there is none; else
\* ensure_root_is_scheduled -> perform_sync_work_on_root ->
\* prepare_fresh_stack.
EnsureRootIsScheduled ==
    /\ pc = "schedule_update_on_fiber"
    /\ arg' = None
    /\ IF MarkUpdateLaneFromFiberToRoot(fiber, arg) = NoState
       THEN /\ pc' = ReturnPc
            /\ UNCHANGED <<work_in_progress, fiber, passes, walks, hostOps, swaps,
                           beginLog, completeLog, preCurrent, redirections>>
       ELSE /\ fiber' = CreateWorkInProgress(fiber, root.current)
            /\ work_in_progress' = PrepareFreshStack(fiber, root)
            /\ pc' = "work_loop"
            /\ passes' = passes + 1
            /\ walks' = 0
            /\ hostOps' = 0
            /\ swaps' = 0
            /\ beginLog' = <<>>
            /\ completeLog' = <<>>
            /\ preCurrent' = root.current
            /\ redirections' = <<>>
    /\ UNCHANGED <<root, shape, node, finished, lastCall, stack>>

\* ------------------------------------------------------------- work_loop
\* perform_unit_of_work(f), with begin_work leaving the flags fs on f:
\* descend to the child begin_work returns, or enter complete_unit_of_work.
PerformUnitOfWorkOn(f, fs) ==
    /\ LET fib == BeginWork(fiber, shape, f, fs)
           next == fib[f].child
       IN /\ fiber' = fib
          /\ beginLog' = Log(beginLog, f)
          /\ IF next = None
             THEN /\ pc' = "complete_unit_of_work"
                  /\ node' = f
                  /\ UNCHANGED work_in_progress
             ELSE /\ work_in_progress' = next
                  /\ pc' = "work_loop"
                  /\ UNCHANGED node
    /\ UNCHANGED <<root, shape, finished, arg, lastCall, passes, walks, hostOps, swaps,
                   completeLog, preCurrent, redirections>>

\* One iteration of work_loop: perform_unit_of_work(work_in_progress).
PerformUnitOfWork(fs) ==
    /\ pc = "work_loop"
    /\ work_in_progress # None
    /\ PerformUnitOfWorkOn(work_in_progress, fs)
    /\ UNCHANGED stack

\* complete_unit_of_work that does not clear work_in_progress when the
\* completed node has no _return.
CompleteUnitOfWorkStep_NoClear(fib, n, next) ==
    IF next # None
    THEN [wip |-> next, node |-> None, loop |-> FALSE]
    ELSE IF fib[n].sibling # None
    THEN [wip |-> next, node |-> None, loop |-> FALSE]
    ELSE IF fib[n]._return = None
    THEN [wip |-> n, node |-> None, loop |-> FALSE]
    ELSE [wip |-> fib[n]._return, node |-> fib[n]._return, loop |-> TRUE]

\* complete_unit_of_work that moves on to the parent although the completed
\* node has a sibling.
CompleteUnitOfWorkStep_SkipSibling(fib, n, next) ==
    IF next # None
    THEN [wip |-> next, node |-> None, loop |-> FALSE]
    ELSE IF fib[n]._return = None
    THEN [wip |-> None, node |-> None, loop |-> FALSE]
    ELSE [wip |-> fib[n]._return, node |-> fib[n]._return, loop |-> TRUE]

\* complete_unit_of_work without the return of line 173: after taking the
\* redirection it falls through to the sibling and _return tests.
CompleteUnitOfWorkStep_NoReturn(fib, n, next) ==
    IF fib[n].sibling # None
    THEN [wip |-> next, node |-> None, loop |-> FALSE]
    ELSE IF fib[n]._return = None
    THEN [wip |-> None, node |-> None, loop |-> FALSE]
    ELSE [wip |-> fib[n]._return, node |-> fib[n]._return, loop |-> TRUE]

\* What one iteration of the loop of complete_unit_of_work does after
\* complete_work(n) returned next: the new work_in_progress, the new node
\* and whether the loop goes on.
CompleteUnitOfWorkStep(fib, n, next) ==
    IF next # None
    THEN [wip |-> next, node |-> None, loop |-> FALSE]
    ELSE IF fib[n].sibling # None
    THEN [wip |-> next, node |-> None, loop |-> FALSE]
    ELSE IF fib[n]._return = None
    THEN [wip |-> None, node |-> None, loop |-> FALSE]
    ELSE [wip |-> fib[n]._return, node |-> fib[n]._return, loop |-> TRUE]

\* One iteration of the loop of complete_unit_of_work, in which
\* complete_work(node) returns next.
CompleteUnitOfWorkReturning(next) ==
    /\ pc = "complete_unit_of_work"
    /\ LET fib == CompleteWork(fiber, node)
           step == CompleteUnitOfWorkStep(fib, node, next)
       IN /\ fiber' = fib
          /\ completeLog' = Log(completeLog, node)
          /\ work_in_progress' = step.wip
          /\ node' = step.node
          /\ pc' = IF step.loop THEN "complete_unit_of_work" ELSE "work_loop"
    /\ UNCHANGED <<root, shape, finished, arg, lastCall, passes, walks, hostOps, swaps,
                   beginLog, preCurrent, stack>>

\* One iteration of the loop of complete_unit_of_work.
CompleteUnitOfWork ==
    /\ CompleteUnitOfWorkReturning(CompleteWorkNext(fiber, node))
    /\ UNCHANGED redirections

\* perform_sync_work_on_root that hands the first child of current to commit.
FinishedWork_Child(fib, r) == fib[r.current].child

\* perform_sync_work_on_root after work_loop returned (lines 88-101):
\* root.finished_work := root.current.alternate, then commit_root is called.
FinishedWork(fib, r) == fib[r.current].alternate

\* perform_sync_work_on_root that publishes the tree as it hands it over.
SetFinishedWork_Swap(fib, r) ==
    [r EXCEPT !.finished_work = FinishedWork(fib, r), !.current = FinishedWork(fib, r)]

\* Lines 90-100: only the finished_work field of the root is written.
SetFinishedWork(fib, r) == [r EXCEPT !.finished_work = FinishedWork(fib, r)]

WorkLoopExit ==
    /\ pc = "work_loop"
    /\ work_in_progress = None
    /\ root' = SetFinishedWork(fiber, root)
    /\ pc' = "commit_root"
    /\ UNCHANGED <<work_in_progress, fiber, shape, node, finished, arg, lastCall, passes,
                   walks, hostOps, swaps, beginLog, completeLog, preCurrent,
                   redirections, stack>>

\* ------------------------------------------------------------ commit_root
\* commit_root that makes the tree current as it takes it, before the walk.
TakeFinishedWork_Publish(r) == [r EXCEPT !.finished_work = None, !.current = r.finished_work]

\* commit_root that reads finished_work without clearing it.
TakeFinishedWork_Keep(r) == r

\* Line 110: finished_work is taken and cleared.
TakeFinishedWork(r) == [r EXCEPT !.finished_work = None]

\* Lines 112-120 and 123: subtree_has_effect || root_has_effect.
HasEffect(fib, fw) ==
    \/ Contains(MutationMask, fib[fw].subtree_flags)
    \/ Contains(MutationMask, fib[fw].flags)

\* commit_root that stores the published tree back into finished_work.
PublishCurrent_Restore(r, fw) == [r EXCEPT !.current = fw, !.finished_work = fw]

\* commit_root that does not reassign root.current.
PublishCurrent_Skip(r, fw) == r

\* Lines 125 and 127: root.current := finished_work.
PublishCurrent(r, fw) == [r EXCEPT !.current = fw]

\* commit_root called on its own, outside a pass.
CallCommitRoot ==
    /\ pc = "idle"
    /\ pc' = "commit_root"
    /\ lastCall' = "commit_root"
    /\ UNCHANGED <<work_in_progress, fiber, root, shape, node, finished, arg, passes,
                   walks, hostOps, swaps, beginLog, completeLog, preCurrent,
                   redirections, stack>>

\* commit_root up to the mutation walk: return when finished_work is unset;
\* else take it, test the effects, and either start the walk or publish.
CommitRoot ==
    /\ pc = "commit_root"
    /\ IF root.finished_work = None
       THEN /\ pc' = ReturnPc
            /\ UNCHANGED <<root, finished, swaps>>
       ELSE IF HasEffect(fiber, root.finished_work)
       THEN /\ finished' = root.finished_work
            /\ root' = TakeFinishedWork(root)
            /\ pc' = "commit_mutation_effects"
            /\ UNCHANGED swaps
       ELSE /\ finished' = None
            /\ root' = PublishCurrent(TakeFinishedWork(root), root.finished_work)
            /\ swaps' = swaps + 1
            /\ pc' = ReturnPc
    /\ UNCHANGED <<work_in_progress, fiber, shape, node, arg, lastCall, passes, walks,
                   hostOps, beginLog, completeLog, preCurrent, redirections, stack>>

RECURSIVE MutatedFibers(_, _)
\* The fibers of the forest at n (n, its siblings, their descendants) that
\* carry a flag of the mutation mask: one host operation each.
MutatedFibers(fib, n) ==
    IF n = None THEN {}
    ELSE (IF fib[n].flags \cap MutationMask # {} THEN {n} ELSE {})
         \cup MutatedFibers(fib, fib[n].child)
         \cup MutatedFibers(fib, fib[n].sibling)

\* CommitWork::commit_mutation_effects(finished_work) (line 124).
CommitMutationEffects ==
    /\ pc = "commit_mutation_effects"
    /\ walks' = walks + 1
    /\ hostOps' = hostOps + Cardinality(MutatedFibers(fiber, finished))
    /\ pc' = "publish"
    /\ UNCHANGED <<work_in_progress, fiber, root, shape, node, finished, arg, lastCall,
                   passes, swaps, beginLog, completeLog, preCurrent, redirections,
                   stack>>

\* Line 125: root.current := finished_work after the walk.
CommitRootPublish ==
    /\ pc = "publish"
    /\ root' = PublishCurrent(root, finished)
    /\ swaps' = swaps + 1
    /\ finished' = None
    /\ pc' = ReturnPc
    /\ UNCHANGED <<work_in_progress, fiber, shape, node, arg, lastCall, passes, walks,
                   hostOps, beginLog, completeLog, preCurrent, redirections, stack>>

\* ------------------------------------------------------------------- Next
Next ==
    \/ \E f \in FiberIds : ScheduleUpdateOnFiber(f)
    \/ EnsureRootIsScheduled
    \/ \E fs \in FlagChoices : PerformUnitOfWork(fs)
    \/ CompleteUnitOfWork
    \/ WorkLoopExit
    \/ CallCommitRoot
    \/ CommitRoot
    \/ CommitMutationEffects
    \/ CommitRootPublish

Spec == Init /\ [][Next]_vars

\* The steps of a call that is running: the program is single-threaded and
\* synchronous, so a call that has started runs on until it returns.
Running ==
    \/ EnsureRootIsScheduled
    \/ \E fs \in FlagChoices : PerformUnitOfWork(fs)
    \/ CompleteUnitOfWork
    \/ WorkLoopExit
    \/ CommitRoot
    \/ CommitMutationEffects
    \/ CommitRootPublish

FairSpec == Spec /\ WF_vars(Running)


\* ------------------------------------------------- re-entrant scheduling
\* begin_work on work_in_progress runs code that calls
\* schedule_update_on_fiber(f) before begin_work returns: the call is served
\* at once, as a nested call, by the same body (lines 29-40 hold no test of
\* a pass being in flight).
RaiseUpdateInBeginWork(f) ==
    /\ pc = "work_loop"
    /\ work_in_progress # None
    /\ Len(stack) < MaxDepth
    /\ passes < MaxPasses
    /\ fiber[f].tag # "Free"
    /\ stack' = <<work_in_progress>> \o stack
    /\ arg' = f
    /\ pc' = "schedule_update_on_fiber"
    /\ UNCHANGED <<work_in_progress, fiber, root, shape, node, finished, lastCall,
                   passes, walks, hostOps, swaps, beginLog, completeLog, preCurrent,
                   redirections>>

\* The nested call has returned: begin_work goes on and returns, and
\* perform_unit_of_work(fiber) finishes for the fiber it was called with.
ResumeBeginWork(fs) ==
    /\ pc = "begin_work"
    /\ stack # <<>>
    /\ stack' = Tail(stack)
    /\ PerformUnitOfWorkOn(Head(stack), fs)

ReentrantNext ==
    \/ Next
    \/ \E f \in FiberIds : RaiseUpdateInBeginWork(f)
    \/ \E fs \in FlagChoices : ResumeBeginWork(fs)

\* The program when begin_work may raise updates.
ReentrantSpec == Init /\ [][ReentrantNext]_vars

\* ------------------------------------------------------------ redirection
\* One iteration of the loop of complete_unit_of_work in which
\* complete_work(node) returns the redirection target t, a fiber of the
\* work-in-progress tree.
CompleteUnitOfWorkRedirected(t) ==
    /\ Len(redirections) < MaxRedirects
    /\ pc = "complete_unit_of_work"
    /\ fiber[t].tag # "Free"
    /\ Buf(t) = Buf(node)
    /\ CompleteUnitOfWorkReturning(t)
    /\ redirections' = Append(redirections, [node |-> node, target |-> t])

\* The steps of the program when complete_work may return redirections;
\* begin_work sets no flag here, the order of the traversal does not read
\* the flags.
RedirectNext ==
    \/ \E f \in FiberIds : ScheduleUpdateOnFiber(f)
    \/ EnsureRootIsScheduled
    \/ PerformUnitOfWork(NoFlags)
    \/ CompleteUnitOfWork
    \/ \E t \in TreeIds : CompleteUnitOfWorkRedirected(t)
    \/ WorkLoopExit
    \/ CommitRoot
    \/ CommitMutationEffects
    \/ CommitRootPublish

RedirectSpec == Init /\ [][RedirectNext]_vars

\* ============================================================== the claims
RECURSIVE PreOrder(_, _)
\* The forest at n (n, its descendants, then its siblings) in pre-order.
PreOrder(fib, n) ==
    IF n = None THEN <<>>
    ELSE <<n>> \o PreOrder(fib, fib[n].child) \o PreOrder(fib, fib[n].sibling)

RECURSIVE PostOrder(_, _)
\* The forest at n in post-order.
PostOrder(fib, n) ==
    IF n = None THEN <<>>
    ELSE PostOrder(fib, fib[n].child) \o <<n>> \o PostOrder(fib, fib[n].sibling)

\* The fibers reachable from n through child and sibling links.
Reachable(fib, n) == {PreOrder(fib, n)[i] : i \in 1 .. Len(PreOrder(fib, n))}

\* The topmost ancestor of f is a HostRoot fiber holding a root container.
Resolvable(f) ==
    LET top == TopAncestor(fiber, f) IN
    fiber[top].tag = "HostRoot" /\ fiber[top].state_node = FiberRootNode

\* begin_work has set Update on some fiber it visited in this pass.
UpdateSet == \E i \in 1 .. Len(beginLog) : "Update" \in fiber[beginLog[i]].flags

\* A pass has handed its tree to commit_root.
HandedToCommit ==
    pc = "commit_root" /\ lastCall = "schedule_update_on_fiber"
    /\ root.finished_work # None

\* C1: when complete_work on a node with a sibling returns no redirection,
\* work_in_progress becomes that sibling and the work loop goes on with
\* begin_work on it.
C1_AdvanceToSibling ==
    [][(/\ pc = "complete_unit_of_work"
        /\ CompleteWorkNext(fiber, node) = None
        /\ fiber[node].sibling # None)
       => (/\ work_in_progress' = fiber[node].sibling
           /\ pc' = "work_loop")]_vars

\* C2: when a pass hands its tree to commit, begin_work has run exactly once
\* on every fiber reachable from the root twin, in pre-order, and
\* complete_work exactly once on each, in post-order.
C2_EveryFiberOnce ==
    HandedToCommit =>
        /\ beginLog = PreOrder(fiber, root.finished_work)
        /\ completeLog = PostOrder(fiber, root.finished_work)

\* C3: after a pass has returned, every fiber n reachable from root.current
\* has subtree_flags(n) = flags(n) | OR of its children's subtree_flags.
C3_AggregationCorrect ==
    (pc = "idle" /\ passes >= 1) =>
        \A n \in Reachable(fiber, root.current) :
            fiber[n].subtree_flags =
                fiber[n].flags \cup ChainSubtreeFlags(fiber, fiber[n].child)

\* C4: schedule_update_on_fiber on a fiber whose topmost ancestor is not a
\* HostRoot holding a root container returns without creating a twin,
\* moving work_in_progress, touching the root, running begin_work or
\* complete_work, or issuing a host operation.
C4_DetachedNoOp ==
    [][(pc = "schedule_update_on_fiber" /\ ~Resolvable(arg))
       => (/\ pc' = "idle"
           /\ UNCHANGED <<work_in_progress, fiber, root, passes, walks, hostOps,
                          swaps, beginLog, completeLog>>)]_vars

\* C4 witness: a schedule call has returned without ever starting a pass.
C4_Witness ==
    /\ pc = "idle"
    /\ lastCall = "schedule_update_on_fiber"
    /\ passes = 0
    /\ work_in_progress = None

\* C5: commit_root with finished_work unset changes nothing; with it set it
\* clears it; so between two passes the mutation walk and the write of
\* root.current happen at most once, however often commit_root is called.
C5_CommitOnce ==
    [][/\ (pc = "commit_root" /\ root.finished_work = None)
          => (/\ pc' = "idle"
              /\ UNCHANGED <<root, fiber, walks, hostOps, swaps>>)
       /\ (pc = "commit_root" /\ root.finished_work # None)
          => root'.finished_work = None
       /\ walks' <= 1
       /\ swaps' <= 1]_vars

\* C5 witness: commit_root was called again after a pass that had published
\* its tree, and has returned.
C5_Witness ==
    /\ pc = "idle"
    /\ lastCall = "commit_root"
    /\ passes >= 1
    /\ swaps = 1
    /\ walks = 1

\* commit_root, called with finished_work set, returns.
CommitReturns ==
    /\ pc' = "idle"
    /\ \/ pc = "publish"
       \/ pc = "commit_root" /\ root.finished_work # None

\* C6: when commit_root returns after running with finished_work set,
\* root.current is that finished_work; at the end of a pass this is the twin
\* the pass built, the alternate of the previous current.
C6_CurrentIsFinishedWork ==
    [][CommitReturns
       => (/\ root'.current = (IF pc = "publish" THEN finished
                               ELSE root.finished_work)
           /\ root'.current = fiber[preCurrent].alternate
           /\ root'.current # preCurrent)]_vars

\* C6 witness: a pass has returned without a mutation walk, and current is
\* the new twin.
C6_Witness ==
    /\ pc = "idle"
    /\ passes >= 1
    /\ walks = 0
    /\ root.current # preCurrent

\* C7: commit_root starts the mutation walk whenever subtree_flags or flags
\* of finished_work shares a flag with the mutation mask.
C7_WalkWhenEffect ==
    [][(/\ pc = "commit_root"
        /\ root.finished_work # None
        /\ \/ fiber[root.finished_work].subtree_flags \cap MutationMask # {}
           \/ fiber[root.finished_work].flags \cap MutationMask # {})
       => pc' = "commit_mutation_effects"]_vars

\* C8: commit_root starts no mutation walk and applies no host operation
\* when neither subtree_flags nor flags of finished_work shares a flag with
\* the mutation mask; it only reassigns root.current.
C8_NoWalkWithoutEffect ==
    [][(/\ pc = "commit_root"
        /\ root.finished_work # None
        /\ fiber[root.finished_work].subtree_flags \cap MutationMask = {}
        /\ fiber[root.finished_work].flags \cap MutationMask = {})
       => (/\ pc' = "idle"
           /\ root'.current = root.finished_work
           /\ walks' = walks
           /\ hostOps' = hostOps)]_vars

\* C9: in a pass where begin_work set Update on some fiber, the root twin
\* handed to commit has Update in its subtree_flags, and when the pass has
\* returned the mutation walk has run exactly once and root.current is the
\* new tree.
C9_UpdateReachesCommit ==
    /\ (HandedToCommit /\ UpdateSet)
       => "Update" \in fiber[root.finished_work].subtree_flags
    /\ (pc = "idle" /\ passes >= 1 /\ UpdateSet)
       => (walks = 1 /\ root.current = fiber[preCurrent].alternate)

\* C10: the work loop of a pass terminates, and it ends with
\* work_in_progress empty.
C10_WorkLoopTerminates ==
    (pc = "work_loop") ~> (pc = "commit_root" /\ work_in_progress = None)

\* C10 witness: a pass over a tree of at least two fibers has left the work
\* loop with work_in_progress empty.
C10_Witness ==
    /\ HandedToCommit
    /\ work_in_progress = None
    /\ Len(beginLog) >= 2
    /\ Len(completeLog) >= 2

\* A request raised inside a pass is being served, for a fiber of the root
\* whose pass is in flight.
ReentrantRequest ==
    /\ pc = "schedule_update_on_fiber"
    /\ stack # <<>>
    /\ Resolvable(arg)

\* C11: a schedule_update_on_fiber request raised while a pass on the same
\* root is in flight is deferred: serving it neither moves work_in_progress
\* nor starts a pass nor touches a fiber, and control goes back to the pass
\* in flight.
C11_ReentrantDeferred ==
    [][ReentrantRequest
       => (/\ work_in_progress' = work_in_progress
           /\ passes' = passes
           /\ fiber' = fiber
           /\ pc' = "begin_work")]_vars

\* C12: when a pass hands its tree to commit_root, finished_work is the root
\* twin prepare_fresh_stack installed as the first work_in_progress,
\* complete_work has run on it, and the last fiber complete_work ran on is
\* the one without _return.
C12_RootTwinAggregated ==
    HandedToCommit =>
        /\ root.finished_work = fiber[preCurrent].alternate
        /\ root.finished_work = beginLog[1]
        /\ \E i \in 1 .. Len(completeLog) : completeLog[i] = root.finished_work
        /\ fiber[completeLog[Len(completeLog)]]._return = None

RECURSIVE ChainFibers(_, _)
\* n and the siblings after it.
ChainFibers(fib, n) ==
    IF n = None THEN {} ELSE {n} \cup ChainFibers(fib, fib[n].sibling)

\* The place of fiber n in log, 0 when it is not in it.
IndexIn(log, n) ==
    IF \E i \in 1 .. Len(log) : log[i] = n
    THEN Min({i \in 1 .. Len(log) : log[i] = n})
    ELSE 0

\* C13: in a pass, complete_work runs on a fiber only after begin_work ran
\* on it and after complete_work ran on every one of its children.
C13_ChildrenBeforeParent ==
    \A i \in 1 .. Len(completeLog) :
        LET n == completeLog[i] IN
        /\ IndexIn(beginLog, n) # 0
        /\ \A c \in ChainFibers(fiber, fiber[n].child) :
              /\ IndexIn(beginLog, c) # 0
              /\ IndexIn(completeLog, c) # 0
              /\ IndexIn(completeLog, c) < i

\* C13 witness: a parent has been aggregated after its child.
C13_Witness ==
    /\ Len(completeLog) >= 2
    /\ fiber[completeLog[2]].child = completeLog[1]

RECURSIVE ReturnClosure(_)
\* The fibers of S and all their ancestors through _return.
ReturnClosure(S) ==
    LET T == S \cup ({fiber[x]._return : x \in S} \ {None})
    IN IF T = S THEN S ELSE ReturnClosure(T)

\* C14: for every fiber, at any depth, mark_update_lane_from_fiber_to_root
\* returns the state_node of the one ancestor-or-self without _return when
\* that fiber is tagged HostRoot and its state_node is a FiberRootNode, and
\* none in every other case.
C14_ResolvesTopmostAncestor ==
    \A f \in FiberIds :
        fiber[f].tag # "Free" =>
            LET tops == {a \in ReturnClosure({f}) : fiber[a]._return = None} IN
            /\ Cardinality(tops) = 1
            /\ \A top \in tops :
                  MarkUpdateLaneFromFiberToRoot(fiber, f) =
                      IF /\ fiber[top].tag = "HostRoot"
                         /\ fiber[top].state_node.kind = "FiberRootNode"
                      THEN fiber[top].state_node
                      ELSE NoState

\* C14 witness: the call is resolving a fiber two levels below the root
\* fiber, after a pass, and finds the root container.
C14_Witness ==
    /\ pc = "schedule_update_on_fiber"
    /\ passes >= 1
    /\ fiber[arg]._return # None
    /\ fiber[fiber[arg]._return]._return # None
    /\ MarkUpdateLaneFromFiberToRoot(fiber, arg) = FiberRootNode

\* The latest redirection of the pass.
LastRedirection(r) == r[Len(r)]

\* C15: when complete_work on N returns a redirection target,
\* complete_unit_of_work sets work_in_progress to the target and returns at
\* once, having aggregated N alone; the next step is begin_work on the
\* target, with nothing aggregated in between.
C15_RedirectionTaken ==
    [][/\ (redirections' # redirections /\ redirections' # <<>>)
          => (/\ work_in_progress' = LastRedirection(redirections').target
              /\ pc' = "work_loop"
              /\ completeLog' = Log(completeLog, LastRedirection(redirections').node)
              /\ beginLog' = beginLog)
       /\ (/\ redirections # <<>>
           /\ pc = "work_loop"
           /\ node = None
           /\ work_in_progress = LastRedirection(redirections).target)
          => (/\ beginLog' = Log(beginLog, work_in_progress)
              /\ completeLog' = completeLog)]_vars

\* C15 witness: begin_work has run on the target right after complete_work
\* ran on the fiber that was redirected.
C15_Witness ==
    /\ redirections # <<>>
    /\ beginLog # <<>>
    /\ completeLog # <<>>
    /\ beginLog[Len(beginLog)] = LastRedirection(redirections).target
    /\ completeLog[Len(completeLog)] = LastRedirection(redirections).node
    /\ LastRedirection(redirections).target # LastRedirection(redirections).node

\* C16: root.current changes only in a step of commit_root; while a pass
\* prepares its stack and traverses, and when it hands its tree to commit,
\* root.current is the value it had before the pass; when the pass returns,
\* root.current has been written once.
C16_CurrentWrittenOnceInCommit ==
    [][/\ (root'.current # root.current) => pc \in {"commit_root", "publish"}
       /\ (pc' \in {"work_loop", "complete_unit_of_work"})
          => (root'.current = preCurrent' /\ swaps' = 0)
       /\ (pc' = "commit_root" /\ lastCall' = "schedule_update_on_fiber")
          => (root'.current = preCurrent' /\ swaps' = 0)
       /\ (/\ pc' = "idle"
           /\ pc \in {"commit_root", "publish"}
           /\ lastCall = "schedule_update_on_fiber")
          => (swaps' = 1 /\ root'.current # preCurrent')]_vars

\* C16 witness: a pass over more than one fiber has returned, having written
\* root.current once.
C16_Witness ==
    /\ pc = "idle"
    /\ lastCall = "schedule_update_on_fiber"
    /\ passes >= 1
    /\ Len(beginLog) >= 2
    /\ swaps = 1
    /\ root.current # preCurrent

\* C17: once a pass has run, root.current and its alternate are the two root
\* fibers of the container, at every step; and whenever the program is idle
\* after an even number of passes root.current is the root fiber that was
\* current before the first pass.
C17_PingPong ==
    /\ passes >= 1
       => (/\ {root.current, fiber[root.current].alternate} = {Id(1, 0), Id(1, 1)}
           /\ fiber[fiber[root.current].alternate].alternate = root.current)
    /\ (pc = "idle" /\ passes % 2 = 0) => root.current = Id(1, 0)
    /\ (pc = "idle" /\ passes % 2 = 1) => root.current = Id(1, 1)

\* C17 witness: two passes have run and returned, and current is again the
\* first root fiber.
C17_Witness ==
    /\ pc = "idle"
    /\ passes = 2
    /\ swaps = 1
    /\ root.current = Id(1, 0)
    /\ preCurrent = Id(1, 1)

\* C18: whenever schedule_update_on_fiber is not executing (before the first
\* call, after each return, and while commit_root is called on its own),
\* work_in_progress is empty and finished_work of the root is unset.
C18_Quiescence ==
    (pc = "idle" \/ lastCall # "schedule_update_on_fiber")
    => (work_in_progress = None /\ root.finished_work = None)

\* C18 witness: a full pass with a mutation walk has returned and left
\* nothing pending.
C18_Witness ==
    /\ pc = "idle"
    /\ lastCall = "schedule_update_on_fiber"
    /\ passes >= 1
    /\ walks = 1
    /\ work_in_progress = None
    /\ root.finished_work = None

\* C19: when commit_root runs the mutation walk, root.current is the previous
\* tree until the walk has made its last host operation: the walk step does
\* not write root, and the step that makes the new tree current makes no host
\* operation.
C19_WalkBeforePublish ==
    [][/\ pc' = "commit_mutation_effects"
          => (root'.current = preCurrent' /\ root'.current # finished')
       /\ pc = "commit_mutation_effects"
          => (/\ root' = root
              /\ root.current = preCurrent
              /\ pc' = "publish"
              /\ hostOps' = hostOps + Cardinality(MutatedFibers(fiber, finished)))
       /\ pc = "publish"
          => (/\ hostOps' = hostOps
              /\ walks' = walks
              /\ root.current = preCurrent
              /\ root'.current = finished
              /\ root'.current # preCurrent)]_vars

\* C19 witness: the walk has made a host operation and the previous tree is
\* still current.
C19_Witness ==
    /\ pc = "publish"
    /\ walks = 1
    /\ hostOps >= 1
    /\ root.current = preCurrent
    /\ finished = fiber[preCurrent].alternate

=============================================================================
